---- MODULE Spec2Model ----
(***************************************************************************)
(* The quiz-taking session of src/pages/QuizTakingPage.tsx: the state of   *)
(* the QuizTakingPage component (quiz, loading, currentQuestion, answers,  *)
(* submitting, showConfirmation), its event handlers (selectAnswer,        *)
(* nextQuestion, the navigation buttons, the confirmation buttons,         *)
(* submitQuiz), the two requests it awaits (quizService.getQuiz,           *)
(* quizService.submitQuiz) and the axios response interceptor every        *)
(* failed request passes through. Two more pages are modelled, each as a   *)
(* specification of its own over its own variables: the explanations of    *)
(* the results page (ResultsSpec) and the upload flow of the upload page   *)
(* (UploadSpec). A page's variables keep their constructed values under    *)
(* the specifications of the other pages.                                  *)
(*                                                                         *)
(* One action is one handler run to its next await (React commits the      *)
(* state updates of a discrete event before the next event is handled),    *)
(* or the continuation of an await when the request settles.               *)
(***************************************************************************)
EXTENDS Integers, Sequences, FiniteSets, TLC

\* Bound of the model: the longest quiz the server returns.
MaxQuestions == 3

\* The :id of the route the page is mounted at, Number(id).
QuizIds == {11}

\* attempt_id values the server may answer a submission with.
AttemptIds == {41, 42}

\* The i-th question of a quiz: identifiers are not in quiz order, and are
\* not the indices.
QuestionId(i) == ((i * 7) % 10) + 1

\* The option identifiers of the i-th question (two options each). The
\* second question carries an option whose numeric id is 0.
OptionIds(i) == IF i = 2 THEN <<3, 0>> ELSE <<2 * i - 1, 2 * i>>

\* quiz === null (useState<Quiz | null>(null)).
Null == [kind |-> "null"]

\* The Quiz the server returns for an id: n questions in order.
MakeQuiz(id, n) ==
    [kind |-> "quiz", id |-> id,
     questions |-> [i \in 1..n |-> [id |-> QuestionId(i), options |-> OptionIds(i)]]]

\* The empty object {} of useState<Record<number, number>>({}).
EmptyRecord == [k \in {} |-> 0]

\* What a rejected request carries: error.response is absent on a transport
\* failure (status 0 here), and data.message may be absent or empty.
Errors ==
    { [status |-> 0],
      [status |-> 400, message |-> "Invalid submission"],
      [status |-> 401, message |-> ""],
      [status |-> 404],
      [status |-> 500] }

NoToast == [kind |-> "none", text |-> ""]

VARIABLES
    location,          \* the router's location: [path, param]
    token,             \* localStorage holds a 'token' item
    quiz,              \* useState<Quiz | null>
    loading,           \* useState(true)
    currentQuestion,   \* useState(0)
    answers,           \* useState<Record<number, number>>({})
    submitting,        \* useState(false)
    showConfirmation,  \* useState(false)
    fetchPending,      \* the getQuiz request of the effect is in flight
    pending,           \* the submitQuiz requests in flight, oldest first
    result,            \* what the awaited submitQuiz returned, <<>> before
    lastToast,         \* the toast shown last
    lastSelected,      \* history: the option of the last selectAnswer call per question
    lastEvent,         \* history: the handler or continuation that ran last
    lastError,         \* history: the error the last failed call was rejected with, <<>> before
    \* QuizResultsPage (src/unnamed/part_001)
    attemptResult,        \* useState<QuizResult | null>(null), its result
    resultsLoading,       \* useState(true), its loading
    resultsPending,       \* the getAttemptResults request of the effect is in flight
    explanations,         \* useState<Record<number, QuestionExplanation>>({})
    loadingExplanations,  \* useState<Record<number, boolean>>({})
    explainPending,       \* the getQuestionExplanations requests in flight
    \* UploadPage (src/pages/RegisterPage.tsx)
    file,              \* useState<File | null>(null)
    title,             \* useState('')
    numQuestions,      \* useState(5)
    isPublic,          \* useState(false)
    uploading,         \* useState(false)
    uploadPending,     \* the uploadPDF requests in flight, each with its handler's closure
    generatePending,   \* the generateQuiz requests in flight
    lastUploaded       \* history: the UploadedPDF the last uploadPDF call returned, <<>> before

\* The state of the QuizTakingPage component and of its requests.
quizPage == <<quiz, loading, currentQuestion, answers, submitting, showConfirmation,
              fetchPending, pending, result, lastSelected>>

\* The state of the QuizResultsPage component and of its requests.
resultsPage == <<attemptResult, resultsLoading, resultsPending, explanations,
                 loadingExplanations, explainPending>>

\* The state of the UploadPage component and of its requests.
uploadPage == <<file, title, numQuestions, isPublic, uploading, uploadPending,
                generatePending, lastUploaded>>

vars == <<location, token, lastToast, lastEvent, lastError, quizPage, resultsPage,
          uploadPage>>

----------------------------------------------------------------------------
(* Pure helpers of the component. *)

\* quiz.questions!.length
questionCount(q) == IF q = Null THEN 0 ELSE Len(q.questions)

\* JavaScript truthiness of a possibly undefined number: undefined and 0
\* are falsy.
Truthy(rec, key) == key \in DOMAIN rec /\ rec[key] # 0

\* currentQ = quiz?.questions?.[currentQuestion]: defined when the index is
\* in range (the model's sequences are 1-based).
HasCurrentQ == quiz # Null /\ currentQuestion + 1 \in 1..questionCount(quiz)

currentQ == quiz.questions[currentQuestion + 1]

\* Mutant of selectAnswer: the entry is keyed by the option, not the question.
selectAnswer_KeyedByOption(prev, questionId, optionId) ==
    [k \in (DOMAIN prev) \cup {optionId} |->
        IF k = optionId THEN questionId ELSE prev[k]]

\* Mutant of selectAnswer: selecting the recorded option again clears it.
selectAnswer_Toggle(prev, questionId, optionId) ==
    IF questionId \in DOMAIN prev /\ prev[questionId] = optionId
    THEN [k \in (DOMAIN prev) \ {questionId} |-> prev[k]]
    ELSE [k \in (DOMAIN prev) \cup {questionId} |->
             IF k = questionId THEN optionId ELSE prev[k]]

\* Mutant of selectAnswer: the entry is keyed by question and option
\* together, so a second choice is a second entry.
selectAnswer_PairKey(prev, questionId, optionId) ==
    [k \in (DOMAIN prev) \cup {questionId * 100 + optionId} |->
        IF k = questionId * 100 + optionId THEN optionId ELSE prev[k]]

\* Mutant of selectAnswer: the previous record is not spread,
\* setAnswers({ [questionId]: optionId }).
selectAnswer_DropsOthers(prev, questionId, optionId) ==
    [k \in {questionId} |-> optionId]

\* prev => ({ ...prev, [questionId]: optionId })
selectAnswer(prev, questionId, optionId) ==
    [k \in (DOMAIN prev) \cup {questionId} |->
        IF k = questionId THEN optionId ELSE prev[k]]

\* Mutant of HasNext: the last two questions count as the end,
\* currentQuestion < quiz.questions!.length - 2.
HasNext_StopsEarly(q, cq) == q # Null /\ cq < questionCount(q) - 2

\* Mutant of HasNext: off by one, currentQuestion <= quiz.questions!.length - 1.
HasNext_OffByOne(q, cq) == q # Null /\ cq <= questionCount(q) - 1

\* quiz && currentQuestion < quiz.questions!.length - 1
HasNext(q, cq) == q # Null /\ cq < questionCount(q) - 1

\* Mutant of answerEntry: option_id: answers[question.id] || undefined, which
\* drops a recorded option whose id is 0.
answerEntry_DropsFalsy(question, ans) ==
    IF Truthy(ans, question.id)
    THEN [question_id |-> question.id, option_id |-> ans[question.id]]
    ELSE [question_id |-> question.id]

\* One entry of answerArray: option_id is answers[question.id], and an
\* undefined option_id is no field of the entry.
answerEntry(question, ans) ==
    IF question.id \in DOMAIN ans
    THEN [question_id |-> question.id, option_id |-> ans[question.id]]
    ELSE [question_id |-> question.id]

\* Mutant of answerArray: only the answered questions are sent.
answerArray_AnsweredOnly(questions, ans) ==
    LET all == [i \in 1..Len(questions) |-> answerEntry(questions[i], ans)]
        Answered(e) == "option_id" \in DOMAIN e
    IN  SelectSeq(all, Answered)

\* answerArray = quiz.questions!.map(question => ({...}))
answerArray(questions, ans) ==
    [i \in 1..Len(questions) |-> answerEntry(questions[i], ans)]

\* The request quizService.submitQuiz(quiz.id, answerArray) posts.
submitRequest(q, ans) ==
    [quiz_id |-> q.id, answers |-> answerArray(q.questions, ans)]

\* Mutant of resultsLocation: navigate is not called.
resultsLocation_NoNavigate(q, attempt_id) == location

\* Mutant of resultsLocation: the route is built from the quiz id.
resultsLocation_QuizId(q, attempt_id) == [path |-> "quiz-results", param |-> q.id]

\* navigate(`/quiz-results/${result.attempt_id}`)
resultsLocation(q, attempt_id) == [path |-> "quiz-results", param |-> attempt_id]

\* error.response?.data?.message || 'Failed to submit quiz'
submitErrorText(err) ==
    IF "message" \in DOMAIN err /\ err.message # ""
    THEN err.message ELSE "Failed to submit quiz"

\* The sequence s without its i-th element.
RemoveAt(s, i) == SubSeq(s, 1, i - 1) \o SubSeq(s, i + 1, Len(s))

\* window.location.href = '/login'
LoginLocation == [path |-> "login", param |-> 0]

\* Mutant of onRejected: every client error ends the session,
\* error.response?.status >= 400 && error.response?.status < 500.
onRejected_AnyClientError(err, tok) ==
    [token |-> IF err.status >= 400 /\ err.status < 500 THEN FALSE ELSE tok,
     redirect |-> err.status >= 400 /\ err.status < 500,
     error |-> err]

\* api.interceptors.response, the rejection handler, for a stored token tok:
\* if (error.response?.status === 401) { localStorage.removeItem('token');
\* window.location.href = '/login'; } return Promise.reject(error);
onRejected(err, tok) ==
    [token |-> IF err.status = 401 THEN FALSE ELSE tok,
     redirect |-> err.status = 401,
     error |-> err]

\* The QuizResultsPage component is not mounted: its state as constructed,
\* no request of its own.
ResultsPageUnmounted ==
    /\ attemptResult = Null
    /\ resultsLoading = TRUE
    /\ resultsPending = FALSE
    /\ explanations = EmptyRecord
    /\ loadingExplanations = EmptyRecord
    /\ explainPending = <<>>

\* The UploadPage component is not mounted: its state as constructed, no
\* request of its own.
UploadPageUnmounted ==
    /\ file = Null
    /\ title = ""
    /\ numQuestions = 5
    /\ isPublic = FALSE
    /\ uploading = FALSE
    /\ uploadPending = <<>>
    /\ generatePending = <<>>
    /\ lastUploaded = <<>>

----------------------------------------------------------------------------
(* What the component renders, and so which handlers the user can reach. *)

\* The page component is mounted while the router is at its route.
Mounted == location.path = "quiz"

\* <Button disabled loading>: a click reaches onClick unless the button is
\* disabled or shows its loading state.
ButtonEnabled(disabled, isLoading) == ~disabled /\ ~isLoading

\* The question view: none of the three early returns is taken.
TakingView == Mounted /\ ~loading /\ quiz # Null /\ ~showConfirmation

\* Mutant of ConfirmationView: the confirmation buttons are rendered whether
\* or not showConfirmation is set.
ConfirmationView_Always == Mounted /\ ~loading /\ quiz # Null

\* The confirmation view: if (showConfirmation) return ...
ConfirmationView == Mounted /\ ~loading /\ quiz # Null /\ showConfirmation

\* Mutant of NextButtonEnabled: the button is not given disabled={!currentAnswer}.
NextButtonEnabled_NoDisabled == ButtonEnabled(FALSE, FALSE)

\* The Next/Finish button: disabled={!currentAnswer}.
NextButtonEnabled ==
    ButtonEnabled(~(HasCurrentQ /\ Truthy(answers, currentQ.id)), FALSE)

\* Mutant of SubmitButtonEnabled: the button is disabled while a question is
\* unanswered.
SubmitButtonEnabled_NeedsAllAnswered ==
    ButtonEnabled(Cardinality(DOMAIN answers) < questionCount(quiz), submitting)

\* Mutant of SubmitButtonEnabled: the button is not given loading={submitting}.
SubmitButtonEnabled_NoLoading == ButtonEnabled(FALSE, FALSE)

\* The Submit Quiz button: loading={submitting}.
SubmitButtonEnabled == ButtonEnabled(FALSE, submitting)

----------------------------------------------------------------------------
\* Mutant of Init: the index starts at the first question's label,
\* useState(1).
Init_OneBased ==
    /\ location \in {[path |-> "quiz", param |-> id] : id \in QuizIds}
    /\ token = TRUE
    /\ quiz = Null
    /\ loading = TRUE
    /\ currentQuestion = 1
    /\ answers = EmptyRecord
    /\ submitting = FALSE
    /\ showConfirmation = FALSE
    /\ fetchPending = TRUE
    /\ pending = <<>>
    /\ result = <<>>
    /\ lastToast = NoToast
    /\ lastSelected = EmptyRecord
    /\ lastEvent = "mount"
    /\ lastError = <<>>
    /\ ResultsPageUnmounted
    /\ UploadPageUnmounted

Init ==
    /\ location \in {[path |-> "quiz", param |-> id] : id \in QuizIds}
    /\ token = TRUE
    /\ quiz = Null
    /\ loading = TRUE
    /\ currentQuestion = 0
    /\ answers = EmptyRecord
    /\ submitting = FALSE
    /\ showConfirmation = FALSE
    /\ fetchPending = TRUE
    /\ pending = <<>>
    /\ result = <<>>
    /\ lastToast = NoToast
    /\ lastSelected = EmptyRecord
    /\ lastEvent = "mount"
    /\ lastError = <<>>
    /\ ResultsPageUnmounted
    /\ UploadPageUnmounted

\* fetchQuiz, the await returns: setQuiz(quizData); finally setLoading(false).
GetQuizSucceed ==
    /\ fetchPending
    /\ \E n \in 0..MaxQuestions :
          quiz' = IF Mounted THEN MakeQuiz(location.param, n) ELSE quiz
    /\ loading' = IF Mounted THEN FALSE ELSE loading
    /\ fetchPending' = FALSE
    /\ lastEvent' = "fetchQuiz:ok"
    /\ UNCHANGED <<location, token, currentQuestion, answers, submitting,
                   showConfirmation, pending, result, lastToast, lastSelected>>
    /\ UNCHANGED <<lastError, resultsPage, uploadPage>>

\* Mutant of GetQuizFail: setLoading(false) is at the end of the try block,
\* not in a finally block, and is skipped when the call throws.
GetQuizFail_NoFinally ==
    /\ fetchPending
    /\ \E err \in Errors :
          LET rejected == onRejected(err, token) IN
          /\ token' = rejected.token
          /\ lastError' = <<rejected.error>>
          /\ \/ location' = [path |-> "quizzes", param |-> 0]
             \/ /\ rejected.redirect
                /\ location' = LoginLocation
    /\ lastToast' = [kind |-> "error", text |-> "Failed to load quiz"]
    /\ fetchPending' = FALSE
    /\ lastEvent' = "fetchQuiz:failed"
    /\ UNCHANGED <<quiz, loading, currentQuestion, answers, submitting,
                   showConfirmation, pending, result, lastSelected>>
    /\ UNCHANGED <<resultsPage, uploadPage>>

\* fetchQuiz, the await throws. The interceptor first: a 401 removes the
\* token and assigns window.location.href. Then the catch block toasts and
\* calls navigate('/quizzes'), and finally setLoading(false). After a 401
\* the document is replaced by /login, or the router's navigation to
\* /quizzes cancelled the pending one: either outcome.
GetQuizFail ==
    /\ fetchPending
    /\ \E err \in Errors :
          LET rejected == onRejected(err, token) IN
          /\ token' = rejected.token
          /\ lastError' = <<rejected.error>>
          /\ \/ location' = [path |-> "quizzes", param |-> 0]
             \/ /\ rejected.redirect
                /\ location' = LoginLocation
    /\ lastToast' = [kind |-> "error", text |-> "Failed to load quiz"]
    /\ loading' = IF Mounted THEN FALSE ELSE loading
    /\ fetchPending' = FALSE
    /\ lastEvent' = "fetchQuiz:failed"
    /\ UNCHANGED <<quiz, currentQuestion, answers, submitting, showConfirmation,
                   pending, result, lastSelected>>
    /\ UNCHANGED <<resultsPage, uploadPage>>

\* A radio input of the current question: onChange={() =>
\* selectAnswer(currentQ.id, option.id)}.
SelectAnswer ==
    /\ TakingView
    /\ HasCurrentQ
    /\ \E j \in 1..Len(currentQ.options) :
          /\ answers' = selectAnswer(answers, currentQ.id, currentQ.options[j])
          /\ lastSelected' =
                [k \in (DOMAIN lastSelected) \cup {currentQ.id} |->
                    IF k = currentQ.id THEN currentQ.options[j] ELSE lastSelected[k]]
          /\ lastEvent' =
                IF currentQ.id \notin DOMAIN lastSelected THEN "selectAnswer:new"
                ELSE IF lastSelected[currentQ.id] = currentQ.options[j]
                     THEN "selectAnswer:same"
                     ELSE "selectAnswer:replace"
    /\ UNCHANGED <<location, token, quiz, loading, currentQuestion, submitting,
                   showConfirmation, fetchPending, pending, result, lastToast>>
    /\ UNCHANGED <<lastError, resultsPage, uploadPage>>

\* Mutant of NextQuestion: opening the confirmation also rewinds to the
\* first question.
NextQuestion_Rewinds ==
    /\ TakingView
    /\ NextButtonEnabled
    /\ IF HasNext(quiz, currentQuestion)
       THEN /\ currentQuestion' = currentQuestion + 1
            /\ UNCHANGED showConfirmation
       ELSE /\ showConfirmation' = TRUE
            /\ currentQuestion' = 0
    /\ lastEvent' = "nextQuestion"
    /\ UNCHANGED <<location, token, quiz, loading, answers, submitting,
                   fetchPending, pending, result, lastToast, lastSelected>>
    /\ UNCHANGED <<lastError, resultsPage, uploadPage>>

\* The Next/Finish button: onClick={nextQuestion}.
NextQuestion ==
    /\ TakingView
    /\ NextButtonEnabled
    /\ IF HasNext(quiz, currentQuestion)
       THEN /\ currentQuestion' = currentQuestion + 1
            /\ UNCHANGED showConfirmation
       ELSE /\ showConfirmation' = TRUE
            /\ UNCHANGED currentQuestion
    /\ lastEvent' = "nextQuestion"
    /\ UNCHANGED <<location, token, quiz, loading, answers, submitting,
                   fetchPending, pending, result, lastToast, lastSelected>>
    /\ UNCHANGED <<lastError, resultsPage, uploadPage>>

\* Mutant of JumpTo: the button sets its label, setCurrentQuestion(index + 1).
JumpTo_OneBased ==
    /\ TakingView
    /\ \E index \in 0..(questionCount(quiz) - 1) : currentQuestion' = index + 1
    /\ lastEvent' = "jumpTo"
    /\ UNCHANGED <<location, token, quiz, loading, answers, submitting,
                   showConfirmation, fetchPending, pending, result, lastToast,
                   lastSelected>>
    /\ UNCHANGED <<lastError, resultsPage, uploadPage>>

\* A question navigation button: onClick={() => setCurrentQuestion(index)},
\* one button per question of the quiz.
JumpTo ==
    /\ TakingView
    /\ \E index \in 0..(questionCount(quiz) - 1) : currentQuestion' = index
    /\ lastEvent' = "jumpTo"
    /\ UNCHANGED <<location, token, quiz, loading, answers, submitting,
                   showConfirmation, fetchPending, pending, result, lastToast,
                   lastSelected>>
    /\ UNCHANGED <<lastError, resultsPage, uploadPage>>

\* Mutant of ReviewAnswers: the review restarts at the first question.
ReviewAnswers_Rewinds ==
    /\ ConfirmationView
    /\ ButtonEnabled(FALSE, FALSE)
    /\ showConfirmation' = FALSE
    /\ currentQuestion' = 0
    /\ lastEvent' = "reviewAnswers"
    /\ UNCHANGED <<location, token, quiz, loading, answers,
                   submitting, fetchPending, pending, result, lastToast,
                   lastSelected>>
    /\ UNCHANGED <<lastError, resultsPage, uploadPage>>

\* The Review Answers button: onClick={() => setShowConfirmation(false)}.
ReviewAnswers ==
    /\ ConfirmationView
    /\ ButtonEnabled(FALSE, FALSE)
    /\ showConfirmation' = FALSE
    /\ lastEvent' = "reviewAnswers"
    /\ UNCHANGED <<location, token, quiz, loading, currentQuestion, answers,
                   submitting, fetchPending, pending, result, lastToast,
                   lastSelected>>
    /\ UNCHANGED <<lastError, resultsPage, uploadPage>>

\* The Submit Quiz button: onClick={submitQuiz}, up to the await:
\* if (!quiz) return; setSubmitting(true); the request is posted.
SubmitQuiz ==
    /\ ConfirmationView
    /\ SubmitButtonEnabled
    /\ quiz # Null
    /\ submitting' = TRUE
    /\ pending' = Append(pending, submitRequest(quiz, answers))
    /\ lastEvent' = "submitQuiz"
    /\ UNCHANGED <<location, token, quiz, loading, currentQuestion, answers,
                   showConfirmation, fetchPending, result, lastToast, lastSelected>>
    /\ UNCHANGED <<lastError, resultsPage, uploadPage>>

\* Mutant of SubmitSucceed: setSubmitting(false) is placed in the catch
\* block, and is skipped when the call returns.
SubmitSucceed_KeepsSubmitting ==
    /\ \E i \in 1..Len(pending), a \in AttemptIds :
          /\ pending' = RemoveAt(pending, i)
          /\ result' = <<[attempt_id |-> a, request |-> pending[i]]>>
          /\ location' = resultsLocation(quiz, a)
    /\ lastToast' = [kind |-> "success", text |-> "Quiz submitted successfully!"]
    /\ lastEvent' = "submitQuiz:ok"
    /\ UNCHANGED <<token, quiz, loading, currentQuestion, answers, submitting,
                   showConfirmation, fetchPending, lastSelected>>
    /\ UNCHANGED <<lastError, resultsPage, uploadPage>>

\* submitQuiz, the await returns: toast.success, navigate to the results of
\* the attempt, finally setSubmitting(false).
SubmitSucceed ==
    /\ \E i \in 1..Len(pending), a \in AttemptIds :
          /\ pending' = RemoveAt(pending, i)
          /\ result' = <<[attempt_id |-> a, request |-> pending[i]]>>
          /\ location' = resultsLocation(quiz, a)
    /\ lastToast' = [kind |-> "success", text |-> "Quiz submitted successfully!"]
    /\ submitting' = IF Mounted THEN FALSE ELSE submitting
    /\ lastEvent' = "submitQuiz:ok"
    /\ UNCHANGED <<token, quiz, loading, currentQuestion, answers,
                   showConfirmation, fetchPending, lastSelected>>
    /\ UNCHANGED <<lastError, resultsPage, uploadPage>>

\* Mutant of SubmitFail: the catch block posts the request again.
SubmitFail_Retries ==
    /\ \E i \in 1..Len(pending), err \in Errors :
          LET rejected == onRejected(err, token) IN
          /\ token' = rejected.token
          /\ lastError' = <<rejected.error>>
          /\ lastToast' = [kind |-> "error", text |-> submitErrorText(rejected.error)]
          /\ IF rejected.redirect
             THEN /\ location' = LoginLocation
                  /\ pending' = <<>>
             ELSE /\ pending' = Append(RemoveAt(pending, i), pending[i])
                  /\ UNCHANGED location
    /\ submitting' = IF Mounted THEN FALSE ELSE submitting
    /\ lastEvent' = "submitQuiz:failed"
    /\ UNCHANGED <<quiz, loading, currentQuestion, answers, showConfirmation,
                   fetchPending, result, lastSelected>>
    /\ UNCHANGED <<resultsPage, uploadPage>>

\* Mutant of SubmitFail: setSubmitting(false) is not in a finally block, and
\* is skipped when the call throws.
SubmitFail_KeepsSubmitting ==
    /\ \E i \in 1..Len(pending), err \in Errors :
          LET rejected == onRejected(err, token) IN
          /\ token' = rejected.token
          /\ lastError' = <<rejected.error>>
          /\ lastToast' = [kind |-> "error", text |-> submitErrorText(rejected.error)]
          /\ IF rejected.redirect
             THEN /\ location' = LoginLocation
                  /\ pending' = <<>>
             ELSE /\ pending' = RemoveAt(pending, i)
                  /\ UNCHANGED location
    /\ lastEvent' = "submitQuiz:failed"
    /\ UNCHANGED <<quiz, loading, currentQuestion, answers, showConfirmation,
                   fetchPending, result, lastSelected, submitting>>
    /\ UNCHANGED <<resultsPage, uploadPage>>

\* submitQuiz, the await throws. The interceptor first: a 401 removes the
\* token and assigns window.location.href = '/login', which replaces the
\* document (and with it every request in flight) once the handlers have
\* run. The catch block toasts the message, finally setSubmitting(false).
SubmitFail ==
    /\ \E i \in 1..Len(pending), err \in Errors :
          LET rejected == onRejected(err, token) IN
          /\ token' = rejected.token
          /\ lastError' = <<rejected.error>>
          /\ lastToast' = [kind |-> "error", text |-> submitErrorText(rejected.error)]
          /\ IF rejected.redirect
             THEN /\ location' = LoginLocation
                  /\ pending' = <<>>
             ELSE /\ pending' = RemoveAt(pending, i)
                  /\ UNCHANGED location
    /\ submitting' = IF Mounted THEN FALSE ELSE submitting
    /\ lastEvent' = "submitQuiz:failed"
    /\ UNCHANGED <<quiz, loading, currentQuestion, answers, showConfirmation,
                   fetchPending, result, lastSelected>>
    /\ UNCHANGED <<resultsPage, uploadPage>>

Next ==
    \/ GetQuizSucceed
    \/ GetQuizFail
    \/ SelectAnswer
    \/ NextQuestion
    \/ JumpTo
    \/ ReviewAnswers
    \/ SubmitQuiz
    \/ SubmitSucceed
    \/ SubmitFail

Spec == Init /\ [][Next]_vars

\* The quiz page under the assumption that the client's submit call
\* eventually returns: a request in flight is eventually answered or fails.
FairSpec == Spec /\ WF_vars(SubmitSucceed \/ SubmitFail)

----------------------------------------------------------------------------
(* The session's phase, read off the component's state. *)

\* The submit call succeeded.
Submitted == result # <<>>

Phase ==
    IF Submitted THEN "Submitted"
    ELSE IF submitting THEN "Submitting"
    ELSE IF showConfirmation THEN "ConfirmingSubmit"
    ELSE "Taking"

\* The identifiers of the questions of the loaded quiz.
QuestionIds == {quiz.questions[i].id : i \in 1..questionCount(quiz)}

----------------------------------------------------------------------------
(* C1 *)

\* C1: at most one submitQuiz request is outstanding at any time, and while
\* submitting is set no step issues another request: a submit invoked while
\* one is in flight is a no-op.
C1_SingleSubmitInFlight ==
    /\ [](Len(pending) <= 1)
    /\ [][submitting => Len(pending') <= Len(pending)]_vars

\* The confirmation view is up with its Submit Quiz button while the one
\* request is in flight.
C1_Witness == ConfirmationView /\ submitting /\ Len(pending) = 1

(* C2 *)

\* C2 as stated: when the submit request fails the phase is ConfirmingSubmit
\* again, answers is what it was when submit was invoked (what the failed
\* request carried), and the failure is toasted.
C2_FailureRevertsToConfirming ==
    [][SubmitFail =>
          /\ Phase' = "ConfirmingSubmit"
          /\ answerArray(quiz.questions, answers') = pending[1].answers
          /\ lastToast'.kind = "error"]_vars

(* C3 *)

\* C3: every step that sets submitting or issues a submit request starts in
\* ConfirmingSubmit (confirmation shown, not submitting, not submitted).
C3_SubmittingOnlyFromConfirming ==
    [][((~submitting /\ submitting') \/ Len(pending') > Len(pending)) =>
          Phase = "ConfirmingSubmit"]_vars

\* The state right after the transition: Submitting, the request carrying
\* the answers as they are.
C3_Witness ==
    /\ Phase = "Submitting"
    /\ pending = <<submitRequest(quiz, answers)>>
    /\ showConfirmation

(* C4 *)

\* C4: once the submit call has succeeded nothing changes any more: answers,
\* currentQuestion, the flags, the location, and the requests in flight.
C4_SubmittedIsTerminal ==
    [][Submitted =>
          UNCHANGED <<answers, currentQuestion, showConfirmation, submitting,
                      pending, result, location>>]_vars

\* Submitted with recorded answers, at the results route.
C4_Witness ==
    /\ Submitted
    /\ DOMAIN answers # {}
    /\ location.path = "quiz-results"

(* C5 *)

\* C5 as stated: once a quiz is loaded, 0 <= currentQuestion <= N - 1.
C5_IndexInRangeForEveryQuiz ==
    quiz # Null =>
        currentQuestion \in 0..(questionCount(quiz) - 1)

\* C5 amended: once a quiz with N >= 1 questions is loaded,
\* 0 <= currentQuestion <= N - 1; with N = 0, currentQuestion stays 0.
C5_IndexInRange ==
    /\ currentQuestion \in Nat
    /\ quiz # Null =>
          IF questionCount(quiz) >= 1
          THEN currentQuestion \in 0..(questionCount(quiz) - 1)
          ELSE currentQuestion = 0

\* The confirmation was opened from the last question of a quiz of several
\* questions: nextQuestion ran at the upper end of the range.
C5_Witness ==
    /\ quiz # Null
    /\ questionCount(quiz) >= 2
    /\ currentQuestion = questionCount(quiz) - 1
    /\ showConfirmation

(* C6 *)

\* C6: every key of answers is the id of a question of the loaded quiz, and
\* its value is the option of the most recent selectAnswer for that question
\* (and exactly the questions ever selected have an entry).
C6_AnswersKeysAndValues ==
    /\ DOMAIN answers \subseteq QuestionIds
    /\ DOMAIN answers = DOMAIN lastSelected
    /\ \A k \in DOMAIN answers :
          /\ answers[k] = lastSelected[k]
          /\ \E i \in 1..questionCount(quiz) :
                /\ quiz.questions[i].id = k
                /\ \E j \in 1..Len(quiz.questions[i].options) :
                      quiz.questions[i].options[j] = answers[k]

\* Every question of a quiz of several questions has a recorded option, one
\* of them the second option of its question.
C6_Witness ==
    /\ quiz # Null
    /\ questionCount(quiz) >= 2
    /\ DOMAIN answers = QuestionIds
    /\ answers[quiz.questions[1].id] = quiz.questions[1].options[2]

(* C7 *)

\* C7: a step that issues a submit request goes from ConfirmingSubmit to
\* Submitting and posts exactly one request, the loaded quiz's id with
\* answerArray of the current answers; the step on which the call succeeds
\* starts in Submitting with that one request, and navigates to the results
\* of the attempt id the call returned.
C7_SuccessfulSubmit ==
    /\ [][Len(pending') > Len(pending) =>
             /\ Phase = "ConfirmingSubmit"
             /\ Phase' = "Submitting"
             /\ pending' =
                   <<[quiz_id |-> quiz.id,
                      answers |-> answerArray(quiz.questions, answers)]>>]_vars
    /\ [][(~Submitted /\ Submitted') =>
             /\ Phase = "Submitting"
             /\ Len(pending) = 1
             /\ pending[1].quiz_id = quiz.id
             /\ pending' = <<>>
             /\ result'[1].request = pending[1]
             /\ result'[1].attempt_id \in AttemptIds
             /\ location' = [path |-> "quiz-results",
                             param |-> result'[1].attempt_id]
             /\ lastToast'.kind = "success"]_vars

\* The call succeeded for a three-question quiz and the page is at the
\* results of the returned attempt.
C7_Witness ==
    /\ Submitted
    /\ Len(result[1].request.answers) = 3
    /\ location = [path |-> "quiz-results", param |-> result[1].attempt_id]
    /\ pending = <<>>

(* C8 *)

\* The question_id of each entry follows the quiz's question order, and
\* there are as many entries as questions.
InQuizOrder(entries, questions) ==
    /\ DOMAIN entries = 1..Len(questions)
    /\ \A i \in 1..Len(questions) : entries[i].question_id = questions[i].id

\* C8: for the loaded quiz and the current answers, and for every request
\* posted, answerArray has exactly N entries, the i-th carrying the id of
\* the i-th question, however many questions are answered.
C8_SubmissionHasNEntriesInOrder ==
    quiz # Null =>
        /\ InQuizOrder(answerArray(quiz.questions, answers), quiz.questions)
        /\ \A r \in 1..Len(pending) :
              InQuizOrder(pending[r].answers, quiz.questions)

\* A request is in flight for a three-question quiz of which only the last
\* question is answered.
C8_Witness ==
    /\ quiz # Null
    /\ questionCount(quiz) = 3
    /\ Len(pending) = 1
    /\ Len(pending[1].answers) = 3
    /\ Cardinality({i \in 1..3 : "option_id" \in DOMAIN pending[1].answers[i]}) = 1

(* C9 *)

\* The entry of a question carries option_id = ans[question.id] when the
\* question has an entry in ans, and no option_id when it has none.
EntriesMatch(entries, questions, ans) ==
    \A i \in 1..Len(questions) :
        IF questions[i].id \in DOMAIN ans
        THEN /\ "option_id" \in DOMAIN entries[i]
             /\ entries[i].option_id = ans[questions[i].id]
        ELSE "option_id" \notin DOMAIN entries[i]

\* The scenario: three questions, the first answered with option 2, the
\* third with option 5, the second skipped.
ScenarioAnswers(ans) ==
    /\ questionCount(quiz) = 3
    /\ DOMAIN ans = {QuestionId(1), QuestionId(3)}
    /\ ans[QuestionId(1)] = 2
    /\ ans[QuestionId(3)] = 5

\* C9: in answerArray the option_id of a question's entry is
\* answers[question.id] when the question was answered and is missing when
\* it was skipped; in the scenario the result is [{q1,o2},{q2},{q3,o5}].
C9_OptionIdOrUnset ==
    quiz # Null =>
        /\ EntriesMatch(answerArray(quiz.questions, answers), quiz.questions, answers)
        /\ ScenarioAnswers(answers) =>
              answerArray(quiz.questions, answers) =
                 << [question_id |-> QuestionId(1), option_id |-> 2],
                    [question_id |-> QuestionId(2)],
                    [question_id |-> QuestionId(3), option_id |-> 5] >>

\* The scenario's answers are recorded and the request built from them is
\* in flight.
C9_Witness ==
    /\ quiz # Null
    /\ ScenarioAnswers(answers)
    /\ pending = <<submitRequest(quiz, answers)>>

(* C10 *)

\* C10: nextQuestion run in Taking at the last index N - 1 ends in
\* ConfirmingSubmit with currentQuestion and answers unchanged.
C10_AdvanceAtLastOpensConfirmation ==
    [][(NextQuestion /\ Phase = "Taking"
          /\ currentQuestion = questionCount(quiz) - 1) =>
          /\ Phase' = "ConfirmingSubmit"
          /\ currentQuestion' = currentQuestion
          /\ answers' = answers]_vars

\* The confirmation is open, nothing submitted yet, on the last question of
\* a quiz of several questions.
C10_Witness ==
    /\ Phase = "ConfirmingSubmit"
    /\ questionCount(quiz) >= 2
    /\ currentQuestion = questionCount(quiz) - 1
    /\ Truthy(answers, currentQ.id)

(* C11 *)

\* C11: nextQuestion run in Taking at an index below N - 1 increases
\* currentQuestion by exactly one and stays in Taking with the answers
\* unchanged; the confirmation is never opened from an index below N - 1.
C11_AdvanceBeforeLastIncrements ==
    /\ [][(NextQuestion /\ Phase = "Taking"
             /\ currentQuestion < questionCount(quiz) - 1) =>
             /\ currentQuestion' = currentQuestion + 1
             /\ Phase' = "Taking"
             /\ answers' = answers]_vars
    /\ [][(~showConfirmation /\ showConfirmation') =>
             currentQuestion = questionCount(quiz) - 1]_vars

\* nextQuestion has just moved a three-question quiz from its first to its
\* second question.
C11_Witness ==
    /\ lastEvent = "nextQuestion"
    /\ questionCount(quiz) = 3
    /\ currentQuestion = 1
    /\ Phase = "Taking"

(* C12 *)

C13_CancelConfirmationKeepsState ==
    [][(ReviewAnswers /\ Phase = "ConfirmingSubmit") =>
          /\ Phase' = "Taking"
          /\ answers' = answers
          /\ currentQuestion' = currentQuestion]_vars

\* Review Answers has just closed the confirmation of a quiz of several
\* questions; the page is back on the last question.
C13_Witness ==
    /\ lastEvent = "reviewAnswers"
    /\ Phase = "Taking"
    /\ questionCount(quiz) >= 2
    /\ currentQuestion = questionCount(quiz) - 1

(* C14 *)

\* C14: every nextQuestion step, and every step that opens the
\* confirmation, starts on a question that has an entry in answers.
C14_AdvanceNeedsAnswer ==
    [][(NextQuestion \/ lastEvent' = "nextQuestion"
          \/ (~showConfirmation /\ showConfirmation')) =>
          /\ HasCurrentQ
          /\ currentQ.id \in DOMAIN answers]_vars

\* nextQuestion has just left the first question, the only one answered.
C14_Witness ==
    /\ lastEvent = "nextQuestion"
    /\ questionCount(quiz) >= 2
    /\ currentQuestion = 1
    /\ DOMAIN answers = {QuestionId(1)}

(* C15 *)

\* The options the loaded quiz offers, as (question id, option id) pairs.
Choices ==
    UNION {{<<quiz.questions[i].id, quiz.questions[i].options[j]>> :
               j \in 1..Len(quiz.questions[i].options)} :
           i \in 1..questionCount(quiz)}

\* C15: for the current answers and every question and option of the quiz,
\* applying selectAnswer(q, o) a second time gives the map the first call
\* gave; and a selectAnswer step that repeats the question's last choice
\* leaves answers as it is.
C15_SelectAnswerIdempotent ==
    /\ [](quiz # Null =>
             \A c \in Choices :
                 selectAnswer(selectAnswer(answers, c[1], c[2]), c[1], c[2])
                    = selectAnswer(answers, c[1], c[2]))
    /\ [][(SelectAnswer /\ lastEvent' = "selectAnswer:same") =>
             answers' = answers]_vars

\* The second option of the current question has just been selected a
\* second time, right after the first.
C15_Witness ==
    /\ lastEvent = "selectAnswer:same"
    /\ HasCurrentQ
    /\ currentQ.id \in DOMAIN answers
    /\ answers[currentQ.id] = currentQ.options[2]

(* C16 *)

\* C16: a selectAnswer step for a question that already has an entry
\* replaces the option of that entry and adds no key; answers never has
\* more keys than the quiz has questions.
C16_SelectAnswerOverwrites ==
    /\ [](Cardinality(DOMAIN answers) <= questionCount(quiz))
    /\ [][(SelectAnswer /\ lastEvent' = "selectAnswer:replace") =>
             /\ DOMAIN answers' = DOMAIN answers
             /\ answers'[currentQ.id] # answers[currentQ.id]
             /\ answers'[currentQ.id] \in
                   {currentQ.options[j] : j \in 1..Len(currentQ.options)}
             /\ \A k \in DOMAIN answers \ {currentQ.id} :
                   answers'[k] = answers[k]]_vars

\* A different option has just replaced the recorded one, with all three
\* questions answered.
C16_Witness ==
    /\ lastEvent = "selectAnswer:replace"
    /\ questionCount(quiz) = 3
    /\ Cardinality(DOMAIN answers) = 3

(* C17 *)

\* C17: when the quiz has just finished loading the session is in Taking
\* (no confirmation, not submitting), at index 0, with no answers.
C17_SessionStartsFresh ==
    lastEvent = "fetchQuiz:ok" =>
        /\ quiz # Null
        /\ ~loading
        /\ Phase = "Taking"
        /\ ~showConfirmation
        /\ ~submitting
        /\ currentQuestion = 0
        /\ answers = EmptyRecord

\* A three-question quiz has just loaded and its question view is up.
C17_Witness ==
    /\ lastEvent = "fetchQuiz:ok"
    /\ questionCount(quiz) = 3
    /\ TakingView

(* C18 *)

\* C18: in ConfirmingSubmit the Submit Quiz button is enabled whatever the
\* number of recorded answers, and a submit with an unanswered question
\* posts a request with an entry that has no option_id.
C18_PartialSubmissionPermitted ==
    /\ []((ConfirmationView /\ ~submitting) => ENABLED SubmitQuiz)
    /\ [][(SubmitQuiz /\ Cardinality(DOMAIN answers) < questionCount(quiz)) =>
             \E i \in 1..questionCount(quiz) :
                 "option_id" \notin DOMAIN pending'[Len(pending')].answers[i]]_vars

\* Submit Quiz has just posted the request of a two-question quiz whose
\* first question is unanswered.
C18_Witness ==
    /\ lastEvent = "submitQuiz"
    /\ questionCount(quiz) = 2
    /\ Len(pending) = 1
    /\ "option_id" \notin DOMAIN pending[1].answers[1]

(* C19 *)

\* C19: every step that issues a submit request is a Submit Quiz click and
\* issues exactly one (so calls never outnumber clicks); the failure of a
\* call issues none, and leaves no request in flight.
C19_NoAutomaticRetry ==
    /\ [][Len(pending') > Len(pending) =>
             /\ lastEvent' = "submitQuiz"
             /\ Len(pending') = Len(pending) + 1]_vars
    /\ [][(SubmitFail \/ lastEvent' = "submitQuiz:failed") =>
             Len(pending') < Len(pending)]_vars
    /\ [](lastEvent = "submitQuiz:failed" => pending = <<>>)

\* A call has just failed with the confirmation still shown: nothing is in
\* flight and submitting is cleared.
C19_Witness ==
    /\ lastEvent = "submitQuiz:failed"
    /\ ConfirmationView
    /\ ~submitting
    /\ pending = <<>>

(* C20 *)

----------------------------------------------------------------------------
(* C21 *)

\* Mutant of progress: the index is not made one-based,
\* (currentQuestion / quiz.questions!.length) * 100.
progress_ZeroBased(q, cq) ==
    IF q = Null THEN [num |-> 0, den |-> 1]
    ELSE [num |-> cq * 100, den |-> questionCount(q)]

\* const progress = quiz ? ((currentQuestion + 1) / quiz.questions!.length)
\* * 100 : 0, as the exact quotient num / den. A quiz without questions
\* divides by zero, which in JavaScript is Infinity: den = 0.
progress(q, cq) ==
    IF q = Null THEN [num |-> 0, den |-> 1]
    ELSE [num |-> (cq + 1) * 100, den |-> questionCount(q)]

\* p is the number n / d.
IsQuotient(p, n, d) == p.den # 0 /\ d # 0 /\ p.num * d = n * p.den

\* 0 < p <= 100, for a finite p.
InPercentRange(p) == p.den > 0 /\ p.num > 0 /\ p.num <= 100 * p.den

----------------------------------------------------------------------------
(* C22 *)

\* C22: after a quiz load that failed with anything but a 401 (not found, a
\* transport failure, a server error) no session exists: the quiz is still
\* unloaded, nothing was recorded, none of selectAnswer, advance, jumpTo and
\* submit is enabled, the router is at the quiz list and loading is false.
C22_LoadFailureCreatesNoSession ==
    (lastEvent = "fetchQuiz:failed" /\ lastError[1].status # 401) =>
        /\ quiz = Null
        /\ answers = EmptyRecord /\ currentQuestion = 0
        /\ ~submitting /\ ~showConfirmation /\ pending = <<>> /\ ~Submitted
        /\ ~ENABLED SelectAnswer
        /\ ~ENABLED NextQuestion
        /\ ~ENABLED JumpTo
        /\ ~ENABLED ReviewAnswers
        /\ ~ENABLED SubmitQuiz
        /\ location = [path |-> "quizzes", param |-> 0]
        /\ ~loading
        /\ token
        /\ lastToast = [kind |-> "error", text |-> "Failed to load quiz"]

\* The quiz was not found.
C22_Witness ==
    /\ lastEvent = "fetchQuiz:failed"
    /\ lastError = <<[status |-> 404]>>
    /\ location.path = "quizzes"
    /\ quiz = Null
    /\ ~loading

----------------------------------------------------------------------------
(* C23 *)

\* C23: a selectAnswer call changes only the entry of its question: the
\* entries of all other questions stay as they were and none is added or
\* removed, and currentIndex, the phase, the quiz and the requests in flight
\* are the same before and after.
C23_SelectAnswerFrame ==
    [][SelectAnswer =>
          /\ DOMAIN answers' = (DOMAIN answers) \cup {currentQ.id}
          /\ \A k \in (DOMAIN answers) \ {currentQ.id} : answers'[k] = answers[k]
          /\ currentQuestion' = currentQuestion
          /\ Phase' = Phase
          /\ UNCHANGED <<quiz, loading, submitting, showConfirmation, pending,
                         result, location, token>>]_vars

\* An option of the second question was chosen while the first and the third
\* question had entries.
C23_Witness ==
    /\ lastEvent = "selectAnswer:new"
    /\ currentQuestion = 1
    /\ questionCount(quiz) = 3
    /\ DOMAIN answers = QuestionIds

----------------------------------------------------------------------------
(* C24 *)

\* C24: Submitting is no resting state. If the client's submit call
\* eventually returns, every session whose submitting flag is set (as it is
\* throughout Submitting) eventually is out of Submitting with the flag
\* cleared; and the step in which the call returns
\* clears the flag on the success path and on the failure path alike.
C24_SubmittingIsLeft ==
    /\ submitting ~> (~submitting /\ Phase # "Submitting")
    /\ [][(SubmitSucceed \/ SubmitFail) => ~submitting']_vars

\* The call returned with an attempt and the flag is clear.
C24_Witness ==
    /\ lastEvent = "submitQuiz:ok"
    /\ Submitted
    /\ ~submitting
    /\ pending = <<>>

----------------------------------------------------------------------------
(* C25 *)

\* C25: while a submit call is in flight the session stays in Submitting: no
\* reachable state has the submitting flag set with the confirmation closed,
\* and no cancelConfirmation, selectAnswer, advance or jumpTo step is taken
\* between the start of a submit and its completion.
C25_NoUserActionDuringSubmit ==
    /\ [](submitting => showConfirmation)
    /\ [][pending # <<>> =>
             ~(ReviewAnswers \/ SelectAnswer \/ NextQuestion \/ JumpTo)]_vars

----------------------------------------------------------------------------
(* C26 *)

\* The last question of the loaded quiz has a recorded answer.
LastQuestionAnswered ==
    /\ questionCount(quiz) >= 1
    /\ quiz.questions[questionCount(quiz)].id \in DOMAIN answers

\* C26: in every reachable state whose phase is ConfirmingSubmit or
\* Submitting, currentIndex = N - 1 and the last question has a recorded
\* answer.
C26_ConfirmingAtLastQuestion ==
    Phase \in {"ConfirmingSubmit", "Submitting"} =>
        /\ currentQuestion = questionCount(quiz) - 1
        /\ LastQuestionAnswered

----------------------------------------------------------------------------
(* C27 *)

\* C27: whenever the phase is Taking and the current question has an entry
\* in answers, advance() is enabled, whatever option identifier the entry
\* holds, 0 included.
C27_AnsweredQuestionCanAdvance ==
    (TakingView /\ Phase = "Taking" /\ HasCurrentQ /\ currentQ.id \in DOMAIN answers)
        => ENABLED NextQuestion

----------------------------------------------------------------------------
(* C29 *)

\* C29: for a response with status 401 the response interceptor removes the
\* stored token and redirects to /login, for any other failure it leaves the
\* token and the location alone, and in both cases it rejects with the error
\* it was given. So in the step in which a request of the quiz page fails,
\* the catch block runs with that error, the token is gone exactly if the
\* status was 401, and the router is then at /login (unless the catch block
\* of fetchQuiz navigated to the quiz list after the interceptor).
C29_UnauthorizedEndsSession ==
    /\ [](\A err \in Errors, tok \in BOOLEAN :
            LET r == onRejected(err, tok)
            IN  /\ r.error = err
                /\ err.status = 401 => ~r.token /\ r.redirect
                /\ err.status # 401 => r.token = tok /\ ~r.redirect)
    /\ [][(SubmitFail \/ GetQuizFail) =>
             /\ lastError' # <<>>
             /\ lastEvent' \in {"submitQuiz:failed", "fetchQuiz:failed"}
             /\ token' = (token /\ lastError'[1].status # 401)
             /\ lastEvent' = "submitQuiz:failed" =>
                   /\ lastToast'.text = submitErrorText(lastError'[1])
                   /\ location' = IF lastError'[1].status = 401
                                  THEN LoginLocation ELSE location
             /\ lastEvent' = "fetchQuiz:failed" =>
                   location' \in
                       {[path |-> "quizzes", param |-> 0]} \cup
                       (IF lastError'[1].status = 401 THEN {LoginLocation} ELSE {})]_vars

\* A submit was answered with a 401: the token is removed and the router is
\* at /login, with the error toasted by the catch block.
C29_Witness ==
    /\ lastEvent = "submitQuiz:failed"
    /\ lastError = <<[status |-> 401, message |-> ""]>>
    /\ ~token
    /\ location = LoginLocation
    /\ lastToast.kind = "error"

----------------------------------------------------------------------------
(* The results page of src/unnamed/part_001 (QuizResultsPage): the attempt's
   result is fetched on mount, and each question's explanation is fetched on
   demand by its Explain Answer button. *)

\* The QuizTakingPage component is not mounted: its state as constructed, no
\* request of its own.
QuizPageUnmounted ==
    /\ quiz = Null
    /\ loading = TRUE
    /\ currentQuestion = 0
    /\ answers = EmptyRecord
    /\ submitting = FALSE
    /\ showConfirmation = FALSE
    /\ fetchPending = FALSE
    /\ pending = <<>>
    /\ result = <<>>
    /\ lastSelected = EmptyRecord

\* The texts an explanation may carry.
ExplanationTexts == {"because", "since"}

\* The QuizResult the server returns for an attempt: n question results in
\* quiz order; quiz_id may be missing.
MakeResult(attemptId, quizId, n, withQuizId) ==
    IF withQuizId
    THEN [kind |-> "result", attempt_id |-> attemptId, quiz_id |-> quizId,
          results |-> [i \in 1..n |-> [question_id |-> QuestionId(i)]]]
    ELSE [kind |-> "result", attempt_id |-> attemptId,
          results |-> [i \in 1..n |-> [question_id |-> QuestionId(i)]]]

\* What getQuestionExplanations may answer a request for one question with:
\* the question's explanation, an empty list, or no list at all.
ExplainResponses(request) ==
    {[quiz_id |-> request.quiz_id,
      explanations |-> <<[question_id |-> request.question_ids[1], explanation |-> t]>>] :
        t \in ExplanationTexts}
    \cup {[quiz_id |-> request.quiz_id, explanations |-> <<>>],
          [quiz_id |-> request.quiz_id]}

\* response.explanations && response.explanations.length > 0
HasExplanation(response) ==
    "explanations" \in DOMAIN response /\ Len(response.explanations) > 0

\* The request quizService.getQuestionExplanations(result.quiz_id,
\* [questionId], false) posts.
explainRequest(res, questionId) ==
    [quiz_id |-> res.quiz_id, question_ids |-> <<questionId>>,
     include_context |-> FALSE]

\* Mutant of setExplanation: the previous record is not spread,
\* setExplanations({ [questionId]: response.explanations[0] }).
setExplanation_DropsOthers(prev, questionId, explanation) ==
    [k \in {questionId} |-> explanation]

\* setExplanations(prev => ({ ...prev, [questionId]: response.explanations[0] }))
setExplanation(prev, questionId, explanation) ==
    [k \in (DOMAIN prev) \cup {questionId} |->
        IF k = questionId THEN explanation ELSE prev[k]]

\* setLoadingExplanations(prev => ({ ...prev, [questionId]: flag }))
setLoadingExplanation(prev, questionId, flag) ==
    [k \in (DOMAIN prev) \cup {questionId} |->
        IF k = questionId THEN flag ELSE prev[k]]

\* error.response?.data?.message || 'Failed to load results'
resultsErrorText(err) ==
    IF "message" \in DOMAIN err /\ err.message # ""
    THEN err.message ELSE "Failed to load results"

\* The page component is mounted while the router is at its route.
ResultsMounted == location.path = "quiz-results"

\* The results view: neither the loading view nor the "Results not found"
\* view is returned.
ResultsView == ResultsMounted /\ ~resultsLoading /\ attemptResult # Null

\* The Explain Answer button of a question is rendered while the question
\* has no stored explanation, with loading={loadingExplanations[question_id]}.
ExplainButtonEnabled(questionId) ==
    /\ questionId \notin DOMAIN explanations
    /\ ButtonEnabled(FALSE, questionId \in DOMAIN loadingExplanations
                            /\ loadingExplanations[questionId])

ResultsInit ==
    /\ location \in {[path |-> "quiz-results", param |-> a] : a \in AttemptIds}
    /\ token = TRUE
    /\ lastToast = NoToast
    /\ lastEvent = "mount"
    /\ lastError = <<>>
    /\ attemptResult = Null
    /\ resultsLoading = TRUE
    /\ resultsPending = TRUE
    /\ explanations = EmptyRecord
    /\ loadingExplanations = EmptyRecord
    /\ explainPending = <<>>
    /\ QuizPageUnmounted
    /\ UploadPageUnmounted

\* fetchResults, the await returns: setResult(result); toast.success;
\* finally setLoading(false).
GetResultsSucceed ==
    /\ resultsPending
    /\ \E quizId \in QuizIds, n \in 0..MaxQuestions, withQuizId \in BOOLEAN :
          attemptResult' = MakeResult(location.param, quizId, n, withQuizId)
    /\ lastToast' = [kind |-> "success", text |-> "Results loaded!"]
    /\ resultsLoading' = FALSE
    /\ resultsPending' = FALSE
    /\ lastEvent' = "fetchResults:ok"
    /\ UNCHANGED <<location, token, lastError, explanations, loadingExplanations,
                   explainPending, quizPage, uploadPage>>

\* fetchResults, the await throws: the interceptor first, then the catch
\* block toasts the message, finally setLoading(false).
GetResultsFail ==
    /\ resultsPending
    /\ \E err \in Errors :
          LET rejected == onRejected(err, token) IN
          /\ token' = rejected.token
          /\ lastError' = <<rejected.error>>
          /\ lastToast' = [kind |-> "error", text |-> resultsErrorText(rejected.error)]
          /\ location' = IF rejected.redirect THEN LoginLocation ELSE location
    /\ resultsLoading' = FALSE
    /\ resultsPending' = FALSE
    /\ lastEvent' = "fetchResults:failed"
    /\ UNCHANGED <<attemptResult, explanations, loadingExplanations,
                   explainPending, quizPage, uploadPage>>

\* An Explain Answer button: onClick={() => fetchExplanation(question_id)},
\* up to the await: without a quiz id only a toast; otherwise the question's
\* loading flag is set and the request is posted.
FetchExplanation ==
    /\ ResultsView
    /\ \E i \in 1..Len(attemptResult.results) :
          LET questionId == attemptResult.results[i].question_id IN
          /\ ExplainButtonEnabled(questionId)
          /\ IF ~Truthy(attemptResult, "quiz_id")
             THEN /\ lastToast' = [kind |-> "error", text |-> "Quiz ID not available"]
                  /\ lastEvent' = "fetchExplanation:noQuizId"
                  /\ UNCHANGED <<loadingExplanations, explainPending>>
             ELSE /\ loadingExplanations' =
                        setLoadingExplanation(loadingExplanations, questionId, TRUE)
                  /\ explainPending' =
                        Append(explainPending, explainRequest(attemptResult, questionId))
                  /\ lastEvent' = "fetchExplanation"
                  /\ UNCHANGED lastToast
    /\ UNCHANGED <<location, token, lastError, attemptResult, resultsLoading,
                   resultsPending, explanations, quizPage, uploadPage>>

\* fetchExplanation, the await returns, for any of the requests in flight: a
\* non-empty result is stored under the question; finally the question's
\* loading flag is cleared.
ExplainSucceed ==
    /\ \E i \in 1..Len(explainPending) :
          LET questionId == explainPending[i].question_ids[1] IN
          \E response \in ExplainResponses(explainPending[i]) :
             /\ explainPending' = RemoveAt(explainPending, i)
             /\ IF HasExplanation(response)
                THEN /\ explanations' =
                           setExplanation(explanations, questionId, response.explanations[1])
                     /\ lastEvent' = "fetchExplanation:ok"
                ELSE /\ UNCHANGED explanations
                     /\ lastEvent' = "fetchExplanation:empty"
             /\ loadingExplanations' =
                   setLoadingExplanation(loadingExplanations, questionId, FALSE)
    /\ UNCHANGED <<location, token, lastToast, lastError, attemptResult,
                   resultsLoading, resultsPending, quizPage, uploadPage>>

\* fetchExplanation, the await throws: the interceptor first (a 401 replaces
\* the document, and with it every request in flight), then the catch block
\* toasts, finally the question's loading flag is cleared.
ExplainFail ==
    /\ \E i \in 1..Len(explainPending), err \in Errors :
          LET questionId == explainPending[i].question_ids[1]
              rejected == onRejected(err, token)
          IN  /\ token' = rejected.token
              /\ lastError' = <<rejected.error>>
              /\ IF rejected.redirect
                 THEN /\ location' = LoginLocation
                      /\ explainPending' = <<>>
                 ELSE /\ explainPending' = RemoveAt(explainPending, i)
                      /\ UNCHANGED location
              /\ loadingExplanations' =
                    setLoadingExplanation(loadingExplanations, questionId, FALSE)
    /\ lastToast' = [kind |-> "error", text |-> "Failed to load explanation"]
    /\ lastEvent' = "fetchExplanation:failed"
    /\ UNCHANGED <<attemptResult, resultsLoading, resultsPending, explanations,
                   quizPage, uploadPage>>

ResultsNext ==
    \/ GetResultsSucceed
    \/ GetResultsFail
    \/ FetchExplanation
    \/ ExplainSucceed
    \/ ExplainFail

ResultsSpec == ResultsInit /\ [][ResultsNext]_vars

----------------------------------------------------------------------------
(* C28 *)

\* The questions of the loaded result.
ResultQuestionIds ==
    {attemptResult.results[i].question_id : i \in 1..Len(attemptResult.results)}

\* The questions with an explanation request in flight.
ExplainInFlight ==
    {explainPending[i].question_ids[1] : i \in 1..Len(explainPending)}

\* C28: on the results page an explanation can be requested for a question
\* while requests for other questions are in flight, and the requests may
\* complete in any order without losing updates: a request that succeeds
\* with a non-empty result leaves the explanation stored under its question,
\* a stored explanation is never removed or replaced, a completing request
\* clears the loading flag of its question and of no other, and once no
\* request is in flight every question's loading flag is false.
C28_ExplanationsNotLost ==
    /\ [](ResultsView /\ Truthy(attemptResult, "quiz_id") =>
            \A q \in ResultQuestionIds \ ((DOMAIN explanations) \cup ExplainInFlight) :
                ENABLED (FetchExplanation /\ q \in DOMAIN loadingExplanations'
                                          /\ loadingExplanations'[q]))
    /\ []((ResultsMounted /\ explainPending = <<>>) =>
            \A q \in DOMAIN loadingExplanations : ~loadingExplanations[q])
    /\ [][\A q \in DOMAIN explanations :
             q \in DOMAIN explanations' /\ explanations'[q] = explanations[q]]_vars
    /\ [][ExplainSucceed =>
             \E i \in 1..Len(explainPending) :
                LET q == explainPending[i].question_ids[1] IN
                /\ explainPending' = RemoveAt(explainPending, i)
                /\ ~loadingExplanations'[q]
                /\ \A k \in (DOMAIN loadingExplanations) \ {q} :
                      loadingExplanations'[k] = loadingExplanations[k]
                /\ lastEvent' = "fetchExplanation:ok" =>
                      /\ q \in DOMAIN explanations'
                      /\ explanations'[q].question_id = q
                      /\ DOMAIN explanations' = (DOMAIN explanations) \cup {q}]_vars

\* Explanations were requested for all three questions of a result; one has
\* come back and is stored, with its flag cleared, while the requests of the
\* other two are still in flight with their flags set.
C28_Witness ==
    /\ ResultsView
    /\ Len(attemptResult.results) = 3
    /\ Len(explainPending) = 2
    /\ DOMAIN loadingExplanations = ResultQuestionIds
    /\ \E q \in ResultQuestionIds :
          /\ DOMAIN explanations = {q}
          /\ ~loadingExplanations[q]
          /\ \A k \in ResultQuestionIds \ {q} : loadingExplanations[k]
    /\ lastEvent = "fetchExplanation:ok"

----------------------------------------------------------------------------
(* The upload page of src/pages/RegisterPage.tsx (UploadPage): a PDF is
   chosen, uploaded with uploadPDF, a quiz is generated from the uploaded
   document with generateQuiz, and the router goes to the quiz. *)

\* The files the user may pick or drop: two PDF documents and a text file.
Files ==
    { [kind |-> "file", name |-> "a.pdf", type |-> "application/pdf"],
      [kind |-> "file", name |-> "b.pdf", type |-> "application/pdf"],
      [kind |-> "file", name |-> "notes.txt", type |-> "text/plain"] }

\* What a drop may carry (e.dataTransfer.files), in order.
DroppedFiles ==
    {<<f>> : f \in Files} \cup
    {<<f, g>> : f \in {x \in Files : x.type # "application/pdf"}, g \in Files}

\* The titles the user may type.
TypedTitles == {"", "Biology"}

\* Two of the values the Number of Questions select offers (3 to 50).
QuestionCounts == {5, 10}

\* The ids the server gives uploaded documents.
PdfIds == {71, 72}

\* pdfFile.name.replace('.pdf', '')
WithoutPdfSuffix(name) ==
    CASE name = "a.pdf" -> "a"
      [] name = "b.pdf" -> "b"
      [] OTHER -> name

\* droppedFiles.find(file => file.type === 'application/pdf'): the first PDF
\* of the dropped files, Null if there is none.
FirstPdf(dropped) ==
    LET pdfs == SelectSeq(dropped, LAMBDA f : f.type = "application/pdf")
    IN  IF pdfs = <<>> THEN Null ELSE Head(pdfs)

\* The form data pdfService.uploadPDF(file, title, is_public) posts: title is
\* appended only if it is not empty, is_public as a string.
uploadRequest(f, t, pub) ==
    IF t # ""
    THEN [pdf_file |-> f.name, title |-> t, is_public |-> IF pub THEN "true" ELSE "false"]
    ELSE [pdf_file |-> f.name, is_public |-> IF pub THEN "true" ELSE "false"]

\* The request pdfService.generateQuiz(uploadedPDF.id, numQuestions) posts.
generateRequest(uploadedPDF, n) ==
    [pdf_id |-> uploadedPDF.id, num_questions |-> n]

\* navigate(`/quiz/${quiz.quiz_id}`)
quizLocation(generated) == [path |-> "quiz", param |-> generated.quiz_id]

\* error.response?.data?.message || 'Upload failed'
uploadErrorText(err) ==
    IF "message" \in DOMAIN err /\ err.message # ""
    THEN err.message ELSE "Upload failed"

\* The page component is mounted while the router is at its route.
UploadMounted == location.path = "upload"

\* The Upload PDF button: {file && <Button onClick={handleUpload}
\* loading={uploading}>}.
UploadButtonEnabled == file # Null /\ ButtonEnabled(FALSE, uploading)

UploadInit ==
    /\ location = [path |-> "upload", param |-> 0]
    /\ token = TRUE
    /\ lastToast = NoToast
    /\ lastEvent = "mount"
    /\ lastError = <<>>
    /\ file = Null
    /\ title = ""
    /\ numQuestions = 5
    /\ isPublic = FALSE
    /\ uploading = FALSE
    /\ uploadPending = <<>>
    /\ generatePending = <<>>
    /\ lastUploaded = <<>>
    /\ QuizPageUnmounted
    /\ ResultsPageUnmounted

\* The file input, rendered while no file is chosen: a file that is no PDF
\* is refused with a toast; a PDF is kept, and names the quiz if no title
\* was typed.
HandleFileSelect ==
    /\ UploadMounted
    /\ file = Null
    /\ \E selectedFile \in Files :
          IF selectedFile.type # "application/pdf"
          THEN /\ lastToast' = [kind |-> "error", text |-> "Please select a PDF file"]
               /\ UNCHANGED <<file, title>>
          ELSE /\ file' = selectedFile
               /\ title' = IF title = "" THEN WithoutPdfSuffix(selectedFile.name) ELSE title
               /\ UNCHANGED lastToast
    /\ lastEvent' = "handleFileSelect"
    /\ UNCHANGED <<location, token, lastError, numQuestions, isPublic, uploading,
                   uploadPending, generatePending, lastUploaded, quizPage, resultsPage>>

\* The drop zone, rendered while no file is chosen: the first PDF of the
\* dropped files is kept, a drop without a PDF is refused with a toast.
HandleDrop ==
    /\ UploadMounted
    /\ file = Null
    /\ \E dropped \in DroppedFiles :
          LET pdfFile == FirstPdf(dropped) IN
          IF pdfFile = Null
          THEN /\ lastToast' = [kind |-> "error", text |-> "Please select a PDF file"]
               /\ UNCHANGED <<file, title>>
          ELSE /\ file' = pdfFile
               /\ title' = IF title = "" THEN WithoutPdfSuffix(pdfFile.name) ELSE title
               /\ UNCHANGED lastToast
    /\ lastEvent' = "handleDrop"
    /\ UNCHANGED <<location, token, lastError, numQuestions, isPublic, uploading,
                   uploadPending, generatePending, lastUploaded, quizPage, resultsPage>>

\* The Remove file button: setFile(null); setTitle('').
RemoveFile ==
    /\ UploadMounted
    /\ file # Null
    /\ file' = Null
    /\ title' = ""
    /\ lastEvent' = "removeFile"
    /\ UNCHANGED <<location, token, lastToast, lastError, numQuestions, isPublic,
                   uploading, uploadPending, generatePending, lastUploaded,
                   quizPage, resultsPage>>

\* The settings of the quiz, rendered while a file is chosen: the title
\* input, the Number of Questions select and the public checkbox.
ChangeSettings ==
    /\ UploadMounted
    /\ file # Null
    /\ \/ /\ \E t \in TypedTitles : title' = t
          /\ UNCHANGED <<numQuestions, isPublic>>
       \/ /\ \E n \in QuestionCounts : numQuestions' = n
          /\ UNCHANGED <<title, isPublic>>
       \/ /\ isPublic' = ~isPublic
          /\ UNCHANGED <<title, numQuestions>>
    /\ lastEvent' = "changeSettings"
    /\ UNCHANGED <<location, token, lastToast, lastError, file, uploading,
                   uploadPending, generatePending, lastUploaded, quizPage, resultsPage>>

\* The Upload PDF button: onClick={handleUpload}, up to the first await:
\* if (!file) return; setUploading(true); the document is posted. What the
\* rest of the handler reads (numQuestions) is the value of this render.
HandleUpload ==
    /\ UploadMounted
    /\ UploadButtonEnabled
    /\ file # Null
    /\ uploading' = TRUE
    /\ uploadPending' =
          Append(uploadPending,
                 [request |-> uploadRequest(file, title, isPublic),
                  numQuestions |-> numQuestions])
    /\ lastEvent' = "handleUpload"
    /\ UNCHANGED <<location, token, lastToast, lastError, file, title, numQuestions,
                   isPublic, generatePending, lastUploaded, quizPage, resultsPage>>

\* Mutant of UploadSucceed: the quiz is generated for a document id the
\* page remembers from before, not for the one this upload returned.
UploadSucceed_StaleId ==
    /\ \E i \in 1..Len(uploadPending), id \in PdfIds :
          LET uploadedPDF == [id |-> id]
              previous == IF lastUploaded = <<>> THEN uploadedPDF ELSE lastUploaded[1]
          IN  /\ uploadPending' = RemoveAt(uploadPending, i)
              /\ lastUploaded' = <<uploadedPDF>>
              /\ generatePending' =
                    Append(generatePending,
                           generateRequest(previous, uploadPending[i].numQuestions))
    /\ lastToast' = [kind |-> "loading", text |-> "Generating quiz questions..."]
    /\ lastEvent' = "uploadPDF:ok"
    /\ UNCHANGED <<location, token, lastError, file, title, numQuestions, isPublic,
                   uploading, quizPage, resultsPage>>

\* handleUpload, the first await returns the UploadedPDF: toast.success,
\* toast.loading, and the quiz is requested for uploadedPDF.id.
UploadSucceed ==
    /\ \E i \in 1..Len(uploadPending), id \in PdfIds :
          LET uploadedPDF == [id |-> id] IN
          /\ uploadPending' = RemoveAt(uploadPending, i)
          /\ lastUploaded' = <<uploadedPDF>>
          /\ generatePending' =
                Append(generatePending,
                       generateRequest(uploadedPDF, uploadPending[i].numQuestions))
    /\ lastToast' = [kind |-> "loading", text |-> "Generating quiz questions..."]
    /\ lastEvent' = "uploadPDF:ok"
    /\ UNCHANGED <<location, token, lastError, file, title, numQuestions, isPublic,
                   uploading, quizPage, resultsPage>>

\* handleUpload, the first await throws: the interceptor first, then the
\* catch block toasts the message, finally setUploading(false). No quiz is
\* requested.
UploadFail ==
    /\ \E i \in 1..Len(uploadPending), err \in Errors :
          LET rejected == onRejected(err, token) IN
          /\ token' = rejected.token
          /\ lastError' = <<rejected.error>>
          /\ lastToast' = [kind |-> "error", text |-> uploadErrorText(rejected.error)]
          /\ IF rejected.redirect
             THEN /\ location' = LoginLocation
                  /\ uploadPending' = <<>>
             ELSE /\ uploadPending' = RemoveAt(uploadPending, i)
                  /\ UNCHANGED location
    /\ uploading' = IF UploadMounted THEN FALSE ELSE uploading
    /\ lastEvent' = "uploadPDF:failed"
    /\ UNCHANGED <<file, title, numQuestions, isPublic, generatePending,
                   lastUploaded, quizPage, resultsPage>>

\* handleUpload, the second await returns the generated quiz: toast.success,
\* navigate to the quiz, finally setUploading(false).
GenerateSucceed ==
    /\ \E i \in 1..Len(generatePending), quizId \in QuizIds :
          /\ generatePending' = RemoveAt(generatePending, i)
          /\ location' = quizLocation([quiz_id |-> quizId, request |-> generatePending[i]])
    /\ lastToast' = [kind |-> "success", text |-> "Quiz generated successfully!"]
    /\ uploading' = IF UploadMounted THEN FALSE ELSE uploading
    /\ lastEvent' = "generateQuiz:ok"
    /\ UNCHANGED <<token, lastError, file, title, numQuestions, isPublic,
                   uploadPending, lastUploaded, quizPage, resultsPage>>

\* handleUpload, the second await throws: the interceptor first, then the
\* catch block toasts the message, finally setUploading(false).
GenerateFail ==
    /\ \E i \in 1..Len(generatePending), err \in Errors :
          LET rejected == onRejected(err, token) IN
          /\ token' = rejected.token
          /\ lastError' = <<rejected.error>>
          /\ lastToast' = [kind |-> "error", text |-> uploadErrorText(rejected.error)]
          /\ IF rejected.redirect
             THEN /\ location' = LoginLocation
                  /\ generatePending' = <<>>
             ELSE /\ generatePending' = RemoveAt(generatePending, i)
                  /\ UNCHANGED location
    /\ uploading' = IF UploadMounted THEN FALSE ELSE uploading
    /\ lastEvent' = "generateQuiz:failed"
    /\ UNCHANGED <<file, title, numQuestions, isPublic, uploadPending,
                   lastUploaded, quizPage, resultsPage>>

UploadNext ==
    \/ HandleFileSelect
    \/ HandleDrop
    \/ RemoveFile
    \/ ChangeSettings
    \/ HandleUpload
    \/ UploadSucceed
    \/ UploadFail
    \/ GenerateSucceed
    \/ GenerateFail

UploadSpec == UploadInit /\ [][UploadNext]_vars

----------------------------------------------------------------------------
(* C30 *)

====
